---- MODULE Spec2Model ----
(***************************************************************************)
(* send_and_upload.js: relay of a Pixeldrain file or folder to Telegram.   *)
(* One process run: main reads the environment, classifies the link and    *)
(* calls handleFile or handleFolder; every await / external command is a   *)
(* step of the state machine.                                              *)
(***************************************************************************)
EXTENDS Integers, Sequences, FiniteSets, TLC

\* ------------------------------------------------------------------ bounds
\* Longest folder listing the remote may return.
MaxFiles == 2
\* The value of MAX_UPLOAD_BYTES when the environment sets it.
MaxBytesOverride == 2
\* Number of plain characters the name token "X" stands for (a long name).
LongRun == 3000
\* Messages of one run that the messaging API answers with ok=false.
MaxRejected == 1

\* --------------------------------------------------------- program constants
DEFAULT_MAX_BYTES == 1900000000
\* the chunk threshold of the folder link list
ChunkLimit == 3000
\* lines.slice(0, 20)
PreviewCount == 20

\* `let size = null` / a member without a size field
NoSize == -1
\* no usable content-disposition header
NoName == <<"?">>
\* a header name decodeURIComponent rejects (malformed percent escape)
BadName == <<"%">>

\* ------------------------------------------------------------------ names
\* A name is a sequence of tokens: single characters, or the run token "X"
\* standing for LongRun ordinary characters.
TokenWidth(t) == IF t = "X" THEN LongRun ELSE 1

\* escapeMarkdownV2 puts a backslash before each of _*[]()~`>#+-=|{}.!\
EscapedChars == {"_", ".", "\\", "-"}

RECURSIVE EscLen(_)
EscLen(s) ==
  IF s = <<>> THEN 0
  ELSE TokenWidth(Head(s)) + (IF Head(s) \in EscapedChars THEN 1 ELSE 0)
       + EscLen(Tail(s))

\* filename.replace(/\//g,'_')
FileSafeName(n) == [k \in 1..Len(n) |-> IF n[k] = "/" THEN "_" ELSE n[k]]

\* f.name.replace(/[\/\\]/g, '_')
FolderSafeName(n) ==
  [k \in 1..Len(n) |-> IF n[k] \in {"/", "\\"} THEN "_" ELSE n[k]]

\* ------------------------------------------------------------------ paths
\* A path is a sequence of components; a component is a name.
TmpRoot == << <<"tmp">> >>

\* fs.mkdtempSync(path.join(os.tmpdir(), 'pixeldrain-')): a fresh directory
MkdtempPath == Append(TmpRoot, <<"pixeldrain-", "r", "u", "n">>)

\* path.join(os.tmpdir(), `pixeldrain-folder-${folderId}.zip`)
ZipPath == Append(TmpRoot, <<"pixeldrain-folder-", "i", "d", ".", "zip">>)

\* path.join(dir, name) for a name without '/': normalisation resolves "",
\* "." and ".."
JoinPath(dir, name) ==
  IF name = <<>> \/ name = <<".">> THEN dir
  ELSE IF name = <<".", ".">> THEN SubSeq(dir, 1, Len(dir) - 1)
  ELSE Append(dir, name)

IsPrefix(p, q) == Len(p) <= Len(q) /\ SubSeq(q, 1, Len(p)) = p

\* ------------------------------------------------------------------ inputs
FileNames == { <<"a">>, <<"a", "/", "b">>, <<"a", "\\", "b">>, <<".", ".">> }
ListNames == { <<"a">>, <<"a", "/", "b">>, <<"a", "_", "b">>, <<".", ".">>,
               <<"X">> }
ListedSizes == { NoSize, 1, MaxBytesOverride }
ProbedSizes == { NoSize, 1, MaxBytesOverride + 1 }
ActualSizes == { 1, MaxBytesOverride + 1 }

Member == [name : ListNames, size : ListedSizes]
Listings == UNION { [1..n -> Member] : n \in 0..MaxFiles }

\* The file id of a single-file link, and the id of listing member k: the
\* remote ids are distinct, a member is identified by its position.
FileId == 0
MemberId(k) == k

\* pixeldrain-${fileId}
DefaultFileName == <<"p", "i", "x", "e", "l", "d", "r", "a", "i", "n", "-", "i">>

\* The answers of the metadata probe: headUrl returns null when fetch throws
\* ("threw"); otherwise head.ok and the two headers.
ProbeResults ==
  { [kind |-> "threw", name |-> NoName, len |-> NoSize],
    [kind |-> "notok", name |-> NoName, len |-> NoSize] }
  \cup [kind : {"ok"}, name : FileNames \cup {NoName, BadName}, len : ProbedSizes]

\* --------------------------------------------------------------- the state
VARIABLES
  env,        \* process.env: PIXEL_LINK (and what the two patterns match),
              \* TELEGRAM_BOT_TOKEN, TELEGRAM_CHAT_ID, MAX_UPLOAD_BYTES
  pc,         \* position of the run
  err,        \* the error travelling to the top-level catch, or "none"
  exitCode,   \* -1 while the process runs, then 0 or 1
  filename,   \* handleFile: filename
  size,       \* handleFile: size
  listing,    \* handleFolder: json.files
  idx,        \* position of the for-loop in progress
  chunks,     \* handleFolder: the chunk messages of the link list, in order
  statSize,   \* stats.size of the staged file / archive
  tmpDir,     \* tmpDir, <<>> before mkdtempSync
  outPath,    \* handleFile: outPath
  files,      \* the file system: regular file path -> content
  dirs,       \* the file system: directories
  archive,    \* the entries of the zip file while it exists
  log         \* every network call and external command, in order

vars == << env, pc, err, exitCode, filename, size, listing, idx, chunks,
           statSize, tmpDir, outPath, files, dirs, archive, log >>

\* const maxBytes = process.env.MAX_UPLOAD_BYTES ? Number(...) : DEFAULT_MAX_BYTES
MaxBytes == IF env.maxSet THEN MaxBytesOverride ELSE DEFAULT_MAX_BYTES

\* One entry of the log.  urls: the ids whose direct URL the call names, in
\* order; path: the local path the command works on; size: the size
\* fs.statSync reports after the command, or the length of a chunk message
\* (NoSize where the source computes neither).
Ev(op, kind, urls, res, path, sz) ==
  [op |-> op, kind |-> kind, urls |-> urls, res |-> res, path |-> path,
   size |-> sz]

Msg(kind, urls, res) == Ev("msg", kind, urls, res, <<>>, NoSize)

Msgs == SelectSeq(log, LAMBDA e : e.op = "msg")
Rejected == SelectSeq(log, LAMBDA e : e.op = "msg" /\ e.res = "rejected")

\* sendTelegramMessage: fetch or resp.json() throws, or the API answers with
\* ok (true) or with ok=false, which is only printed.
SendResults ==
  {"ok", "throw"} \cup (IF Len(Rejected) < MaxRejected THEN {"rejected"} ELSE {})

Init ==
  /\ env \in [linkSet : BOOLEAN, fileMatch : BOOLEAN, folderMatch : BOOLEAN,
              token : BOOLEAN, chat : BOOLEAN, maxSet : BOOLEAN]
  /\ (~env.linkSet => ~env.fileMatch /\ ~env.folderMatch)
  /\ pc = "start"
  /\ err = "none"
  /\ exitCode = -1
  /\ filename = DefaultFileName
  /\ size = NoSize
  /\ listing = <<>>
  /\ idx = 0
  /\ chunks = <<>>
  /\ statSize = NoSize
  /\ tmpDir = <<>>
  /\ outPath = <<>>
  /\ files = <<>>
  /\ dirs = {TmpRoot}
  /\ archive = {}
  /\ log = <<>>

\* Variant: sendTelegramMessage throws on an answer with ok=false.
ThrowsOrRejected(res) == res \in {"throw", "rejected"}

\* sendTelegramMessage returns json whatever json.ok is; only a failing fetch
\* or resp.json() makes the await throw.
Throws(res) == res = "throw"

\* ------------------------------------------------------------- file system
Remove(fs, gone) == [p \in DOMAIN fs \ gone |-> fs[p]]

\* try { fs.unlinkSync(p) } catch {}: a missing path or a directory throws,
\* and the throw is swallowed
UnlinkQuiet(fs, p) == IF p \in DOMAIN fs THEN Remove(fs, {p}) ELSE fs

\* try { fs.rmdirSync(d, { recursive: true }) } catch {}
RmdirFiles(fs, d) == Remove(fs, {p \in DOMAIN fs : IsPrefix(d, p)})
RmdirDirs(ds, d) == {p \in ds : ~IsPrefix(d, p)}

\* wget -c -O path url.  A directory cannot be opened for writing.  With -c an
\* existing file is opened for append and the transfer resumes at its length:
\* "tail" appends the rest of the new resource, "noop" finds nothing left to
\* fetch; both exit 0.  A failed transfer leaves the (created) file behind.
WgetResults(fs, ds, p) ==
  IF p \in ds THEN {"fail"}
  ELSE IF p \in DOMAIN fs THEN {"tail", "noop", "fail"}
  ELSE {"ok", "fail"}

WgetWrite(fs, ds, p, id, res) ==
  IF p \in ds THEN fs
  ELSE LET old == IF p \in DOMAIN fs THEN fs[p] ELSE <<>>
           new == CASE res = "ok"   -> <<[id |-> id, part |-> "whole"]>>
                    [] res = "tail" -> Append(old, [id |-> id, part |-> "tail"])
                    [] res = "noop" -> old
                    [] OTHER        -> Append(old, [id |-> id, part |-> "partial"])
       IN  (p :> new) @@ fs

\* the args array of uploadDocumentCurl: the url it computes is not in it
UploadArgs(caption) ==
  {"--silent", "--show-error", "--fail", "--form chat_id", "--form document"}
  \cup (IF caption THEN {"--form caption"} ELSE {})

\* curl's exit status: 2 without a URL on the command line, otherwise 0 or
\* the --fail / transport status
CurlStatuses(args) == IF "url" \in args THEN {0, 22} ELSE {2}

\* ----------------------------------------------------------- main, part 1
\* The first of the three `throw new Error('... environment variable missing')`
ConfigMissing == ~env.linkSet \/ ~env.token \/ ~env.chat

\* After the start message: link.match(PIXEL_FILE_RE) is tried first, then
\* link.match(PIXEL_FOLDER_RE), else throw 'No pixeldrain link found'.
Classify ==
  IF env.fileMatch THEN "file_head"
  ELSE IF env.folderMatch THEN "folder_fetch"
  ELSE "catch"

\* The synchronous start of the async function up to and including
\* `await sendTelegramMessage(... starting process ...)`, and the
\* classification that follows it.
MainStart ==
  /\ pc = "start"
  /\ IF ConfigMissing
       THEN /\ pc' = "catch"
            /\ err' = "config"
            /\ log' = log
       ELSE \E res \in SendResults :
              /\ log' = Append(log, Msg("start", <<>>, res))
              /\ pc' = IF Throws(res) THEN "catch" ELSE Classify
              /\ err' = IF Throws(res) THEN "send"
                        ELSE IF Classify = "catch" THEN "nolink" ELSE "none"
  /\ UNCHANGED << env, exitCode, filename, size, listing, idx, chunks,
                  statSize, tmpDir, outPath, files, dirs, archive >>

\* Variant: the catch block notifies whenever the token is set.
CanNotifyTokenOnly == env.token

\* if (token && chat_id) in the catch block
CanNotify == env.token /\ env.chat

\* Variant: process.exit(1) stands inside the inner try, after the send.
CatchExitCodeInsideTry(res) == IF res = "throw" THEN 0 ELSE 1

\* process.exit(1) follows the inner try/catch, whatever the send did
CatchExitCode(res) == 1

\* The URLs in the text of the error message: err.message of a failed
\* runCmd is `${cmd} ${args.join(' ')} exited ${status}`, which for wget
\* quotes the URL of the item; the zip and curl command lines hold none.
ErrorMsgUrls == IF err = "download" THEN log[Len(log)].urls ELSE <<>>

\* The top-level catch: the error message when both credentials are set (its
\* own failure is swallowed), then process.exit(1).
MainCatch ==
  /\ pc = "catch"
  /\ IF CanNotify
       THEN \E res \in SendResults :
              /\ log' = Append(log, Msg("error", ErrorMsgUrls, res))
              /\ exitCode' = CatchExitCode(res)
       ELSE /\ log' = log
            /\ exitCode' = CatchExitCode("none")
  /\ pc' = "exited"
  /\ UNCHANGED << env, err, filename, size, listing, idx, chunks, statSize,
                  tmpDir, outPath, files, dirs, archive >>

\* console.log('Done'): the async function returns and the process ends.
MainDone ==
  /\ pc = "done"
  /\ pc' = "exited"
  /\ exitCode' = 0
  /\ UNCHANGED << env, err, filename, size, listing, idx, chunks, statSize,
                  tmpDir, outPath, files, dirs, archive, log >>

\* ------------------------------------------------------------- handleFile
\* Variant: the comparison of the pre-download gate is inverted.
TooLargeKnownInverted(sz, maxBytes) == sz # NoSize /\ sz # 0 /\ sz < maxBytes

\* if (size && size > maxBytes)
TooLargeKnown(sz, maxBytes) == sz # NoSize /\ sz # 0 /\ sz > maxBytes

\* Variant: the post-transfer gate compares with the default budget, not the
\* configured one.
StatTooLargeDefaultOnly(sz, maxBytes) == sz > DEFAULT_MAX_BYTES

\* if (stats.size > maxBytes)
StatTooLarge(sz, maxBytes) == sz > maxBytes

\* The probe, the header parsing and the pre-download gate; below the gate,
\* mkdtempSync and outPath.
FileHead ==
  /\ pc = "file_head"
  /\ \E probe \in ProbeResults :
       LET name == IF probe.name \in {NoName, BadName} THEN DefaultFileName
                   ELSE probe.name
           bad  == probe.name = BadName
           sz   == IF bad THEN NoSize ELSE probe.len
           big  == TooLargeKnown(sz, MaxBytes)
       IN
       /\ log' = Append(log, Ev("head", probe.kind, <<FileId>>, "done", <<>>, probe.len))
       /\ filename' = name
       /\ size' = sz
       /\ pc' = IF bad THEN "catch" ELSE IF big THEN "file_toolarge" ELSE "file_dlmsg"
       /\ err' = IF bad THEN "uri" ELSE "none"
       /\ tmpDir' = IF bad \/ big THEN <<>> ELSE MkdtempPath
       /\ dirs' = IF bad \/ big THEN dirs ELSE dirs \cup {MkdtempPath}
       /\ outPath' = IF bad \/ big THEN <<>>
                     ELSE JoinPath(MkdtempPath, FileSafeName(name))
  /\ UNCHANGED << env, exitCode, listing, idx, chunks, statSize, files, archive >>

\* Variant: the finally block does not unlink, and a plain rmdir of the
\* non-empty directory fails (swallowed).
FileFinallyNoUnlink(fs) == fs

\* handleFile's finally: unlinkSync(outPath), then rmdirSync(tmpDir, recursive)
FileFinallyFiles(fs) == RmdirFiles(UnlinkQuiet(fs, outPath), tmpDir)
FileFinallyDirs(ds) == RmdirDirs(ds, tmpDir)

\* The direct URL a file message carries.
FileMsgUrls(at) ==
  IF at \in {"file_toolarge", "file_afterlarge"} THEN <<FileId>> ELSE <<>>

\* The sendTelegramMessage calls inside handleFile's try block.
FileNextPc(at) ==
  CASE at = "file_dlmsg" -> "file_download"
    [] at = "file_upmsg" -> "file_upload"
    [] OTHER             -> "done"

FileNotify ==
  /\ pc \in {"file_dlmsg", "file_afterlarge", "file_upmsg", "file_okmsg"}
  /\ \E res \in SendResults :
       LET leave == Throws(res) \/ FileNextPc(pc) = "done" IN
       /\ log' = Append(log, Msg(pc, FileMsgUrls(pc), res))
       /\ pc' = IF Throws(res) THEN "catch" ELSE FileNextPc(pc)
       /\ err' = IF Throws(res) THEN "send" ELSE err
       /\ files' = IF leave THEN FileFinallyFiles(files) ELSE files
       /\ dirs' = IF leave THEN FileFinallyDirs(dirs) ELSE dirs
  /\ UNCHANGED << env, exitCode, filename, size, listing, idx, chunks,
                  statSize, tmpDir, outPath, archive >>

\* await downloadWithWget(url, outPath); fs.statSync(outPath); the size gate
FileDownload ==
  /\ pc = "file_download"
  /\ \E res \in WgetResults(files, dirs, outPath), actual \in ActualSizes :
       LET written == WgetWrite(files, dirs, outPath, FileId, res) IN
       /\ log' = Append(log, Ev("get", "file", <<FileId>>, res, outPath,
                               IF res = "fail" THEN NoSize ELSE actual))
       /\ IF res = "fail"
            THEN /\ pc' = "catch"
                 /\ err' = "download"
                 /\ statSize' = statSize
                 /\ files' = FileFinallyFiles(written)
                 /\ dirs' = FileFinallyDirs(dirs)
            ELSE /\ pc' = IF StatTooLarge(actual, MaxBytes) THEN "file_afterlarge"
                          ELSE "file_upmsg"
                 /\ err' = err
                 /\ statSize' = actual
                 /\ files' = written
                 /\ dirs' = dirs
  /\ UNCHANGED << env, exitCode, filename, size, listing, idx, chunks,
                  tmpDir, outPath, archive >>

\* await uploadDocumentCurl(token, chat_id, path, caption): spawnSync('curl', args)
Upload(at) ==
  /\ pc = at
  /\ \E status \in CurlStatuses(UploadArgs(TRUE)) :
       LET path == IF at = "file_upload" THEN outPath ELSE ZipPath
           ok   == status = 0
       IN
       /\ log' = Append(log, Ev("upload", at, <<>>, IF ok THEN "ok" ELSE "fail",
                               path, NoSize))
       /\ pc' = IF ~ok THEN "catch"
                ELSE IF at = "file_upload" THEN "file_okmsg" ELSE "folder_okmsg"
       /\ err' = IF ok THEN err ELSE "upload"
       /\ files' = IF ok THEN files
                   ELSE IF at = "file_upload" THEN FileFinallyFiles(files)
                   ELSE RmdirFiles(files, tmpDir)
       /\ dirs' = IF ok THEN dirs ELSE RmdirDirs(dirs, tmpDir)
  /\ UNCHANGED << env, exitCode, filename, size, listing, idx, chunks,
                  statSize, tmpDir, outPath, archive >>

UploadDocumentCurl == Upload("file_upload") \/ Upload("folder_upload")

\* ----------------------------------------------------------- handleFolder
\* json.files.reduce((s,f)=>s + (f.size || 0), 0)
RECURSIVE TotalBytes(_)
TotalBytes(fl) ==
  IF fl = <<>> THEN 0
  ELSE (IF Head(fl).size = NoSize THEN 0 ELSE Head(fl).size) + TotalBytes(Tail(fl))

\* Variant: a folder of exactly maxBytes is taken for too large.
FolderTooLargeOrEqual(total, maxBytes) == total >= maxBytes

\* if (totalBytes > maxBytes)
FolderTooLarge(total, maxBytes) == total > maxBytes

RECURSIVE Digits(_)
Digits(n) == IF n < 10 THEN 1 ELSE 1 + Digits(n \div 10)

\* `${f.size || 'unknown'}`
SizeTextLen(sz) == IF sz = NoSize \/ sz = 0 THEN 7 ELSE Digits(sz)

\* escapeMarkdownV2(fileApiUrl(f.id)).length: the 32 characters of
\* https://pixeldrain.com/api/file/ with the dot escaped, and a one-character id
UrlEscLen == 33 + 1

\* line.length of `- ${esc(f.name)} (${f.size || 'unknown'} bytes)\n``${esc(url)}```
LineLen(f) == 2 + EscLen(f.name) + 2 + SizeTextLen(f.size) + 8 + 2 + UrlEscLen + 2

LineLens(fl) == [k \in 1..Len(fl) |-> LineLen(fl[k])]

\* if (curLen + line.length > 3000)
ChunkOverflows(curLen, lineLen) == curLen + lineLen > ChunkLimit

\* The chunk loop and the flush after it: the messages it sends, each the
\* indices of the lines it joins.  A message is sent whenever the next line
\* overflows, whatever the chunk holds.
RECURSIVE ChunkLoop(_, _, _, _, _)
ChunkLoop(lens, i, chunk, curLen, out) ==
  IF i > Len(lens)
    THEN IF Len(chunk) > 0 THEN Append(out, chunk) ELSE out
    ELSE IF ChunkOverflows(curLen, lens[i])
      THEN ChunkLoop(lens, i + 1, <<i>>, lens[i], Append(out, chunk))
      ELSE ChunkLoop(lens, i + 1, Append(chunk, i), curLen + lens[i], out)

ChunkMessages(fl) == ChunkLoop(LineLens(fl), 1, <<>>, 0, <<>>)

RECURSIVE SumLens(_, _)
SumLens(lens, chunk) ==
  IF chunk = <<>> THEN 0 ELSE lens[Head(chunk)] + SumLens(lens, Tail(chunk))

\* chunk.join('\n\n').length
JoinedLen(lens, chunk) ==
  IF chunk = <<>> THEN 0 ELSE SumLens(lens, chunk) + 2 * (Len(chunk) - 1)

\* lines.slice(0, 20)
Preview(fl) == [k \in 1..(IF Len(fl) < PreviewCount THEN Len(fl) ELSE PreviewCount)
                  |-> MemberId(k)]

\* The answers of fetch(api): fetch throws, a non-success status, a body that
\* is not JSON, or a listing (none or an empty one for a body without files).
FetchResults ==
  { [kind |-> k, fl |-> <<>>] : k \in {"threw", "notok", "badjson"} }
  \cup [kind : {"ok"}, fl : Listings]

\* fetch(api), resp.ok, resp.json(), the emptiness test, totalBytes and the
\* folder gate; below the gate, mkdtempSync.
FolderFetch ==
  /\ pc = "folder_fetch"
  /\ \E r \in FetchResults :
       LET thrown == r.kind \in {"threw", "badjson"}
           stage  == r.kind = "ok" /\ Len(r.fl) > 0
                     /\ ~FolderTooLarge(TotalBytes(r.fl), MaxBytes)
       IN
       /\ log' = Append(log, Ev("list", r.kind, <<>>, "done", <<>>, NoSize))
       /\ listing' = r.fl
       /\ pc' = IF thrown THEN "catch"
                ELSE IF r.kind = "notok" THEN "folder_failmsg"
                ELSE IF Len(r.fl) = 0 THEN "folder_emptymsg"
                ELSE IF stage THEN "folder_dlmsg"
                ELSE "folder_summary"
       /\ err' = IF thrown THEN "fetch" ELSE "none"
       /\ tmpDir' = IF stage THEN MkdtempPath ELSE <<>>
       /\ dirs' = IF stage THEN dirs \cup {MkdtempPath} ELSE dirs
  /\ UNCHANGED << env, exitCode, filename, size, idx, chunks, statSize,
                  outPath, files, archive >>

\* The sendTelegramMessage calls outside any try block: the pre-download
\* fallback of handleFile, and in handleFolder the two early returns, the
\* summary and the chunk messages.
PlainMsgUrls(at) ==
  CASE at = "file_toolarge"  -> <<FileId>>
    [] at = "folder_summary" -> Preview(listing)
    [] at = "folder_chunk"   -> [k \in 1..Len(chunks[idx]) |-> MemberId(chunks[idx][k])]
    [] OTHER                 -> <<>>

\* chunk.join('\n\n').length of a chunk message
PlainMsgLen(at) ==
  IF at = "folder_chunk" THEN JoinedLen(LineLens(listing), chunks[idx]) ELSE NoSize

PlainNextPc(at) ==
  CASE at = "folder_summary" -> "folder_chunk"
    [] at = "folder_chunk"   -> IF idx < Len(chunks) THEN "folder_chunk" ELSE "done"
    [] OTHER                 -> "done"

NotifyPlain ==
  /\ pc \in {"file_toolarge", "folder_failmsg", "folder_emptymsg",
             "folder_summary", "folder_chunk"}
  /\ \E res \in SendResults :
       /\ log' = Append(log, Ev("msg", pc, PlainMsgUrls(pc), res, <<>>,
                               PlainMsgLen(pc)))
       /\ pc' = IF Throws(res) THEN "catch" ELSE PlainNextPc(pc)
       /\ err' = IF Throws(res) THEN "send" ELSE err
       /\ chunks' = IF pc = "folder_summary" /\ ~Throws(res)
                      THEN ChunkMessages(listing) ELSE chunks
       /\ idx' = IF Throws(res) THEN idx
                 ELSE IF pc = "folder_summary" THEN 1
                 ELSE IF pc = "folder_chunk" THEN idx + 1
                 ELSE idx
  /\ UNCHANGED << env, exitCode, filename, size, listing, statSize, tmpDir,
                  outPath, files, dirs, archive >>

\* handleFolder's finally: rmdirSync(tmpDir, recursive)
FolderFinallyFiles(fs) == RmdirFiles(fs, tmpDir)
FolderFinallyDirs(ds) == RmdirDirs(ds, tmpDir)

\* const outPath = path.join(tmpDir, f.name.replace(/[\/\\]/g, '_'))
MemberPath(dir, f) == JoinPath(dir, FolderSafeName(f.name))

\* Variant: the loop stops one member early.
MoreToDownloadButLast(i, fl) == i < Len(fl) - 1

\* for (const f of json.files): another member follows member i
MoreToDownload(i, fl) == i < Len(fl)

\* One iteration of the download loop.
FolderDownload ==
  /\ pc = "folder_download"
  /\ LET p == MemberPath(tmpDir, listing[idx]) IN
     \E res \in WgetResults(files, dirs, p) :
       LET written == WgetWrite(files, dirs, p, MemberId(idx), res) IN
       /\ log' = Append(log, Ev("get", "member", <<MemberId(idx)>>, res, p, NoSize))
       /\ IF res = "fail"
            THEN /\ pc' = "catch"
                 /\ err' = "download"
                 /\ idx' = idx
                 /\ files' = FolderFinallyFiles(written)
                 /\ dirs' = FolderFinallyDirs(dirs)
            ELSE /\ pc' = IF MoreToDownload(idx, listing) THEN "folder_download"
                          ELSE "folder_zip"
                 /\ err' = err
                 /\ idx' = idx + 1
                 /\ files' = written
                 /\ dirs' = dirs
  /\ UNCHANGED << env, exitCode, filename, size, listing, chunks, statSize,
                  tmpDir, outPath, archive >>

\* The entries zip -r adds from the working directory.
Staged(fs, dir) == {p \in DOMAIN fs : IsPrefix(dir, p) /\ p # dir}
ZipEntries(fs, dir) ==
  {[name |-> p[Len(p)], content |-> fs[p]] : p \in Staged(fs, dir)}

\* runCmd('zip', ['-r', zipPath, '.'], { cwd: tmpDir }): an existing archive
\* is updated (entries of the same name replaced, the others kept);
\* fs.statSync(zipPath); the post-archive gate.
FolderZip ==
  /\ pc = "folder_zip"
  /\ \E res \in {"ok", "fail"}, actual \in ActualSizes :
       LET new  == ZipEntries(files, tmpDir)
           kept == IF ZipPath \in DOMAIN files
                     THEN {e \in archive : \A n \in new : n.name # e.name}
                     ELSE {}
       IN
       /\ log' = Append(log, Ev("zip", "folder", <<>>, res, ZipPath,
                               IF res = "fail" THEN NoSize ELSE actual))
       /\ IF res = "fail"
            THEN /\ pc' = "catch"
                 /\ err' = "zip"
                 /\ statSize' = statSize
                 /\ archive' = archive
                 /\ files' = FolderFinallyFiles(files)
                 /\ dirs' = FolderFinallyDirs(dirs)
            ELSE /\ pc' = IF StatTooLarge(actual, MaxBytes) THEN "folder_zipbig"
                          ELSE "folder_upmsg"
                 /\ err' = err
                 /\ statSize' = actual
                 /\ archive' = new \cup kept
                 /\ files' = (ZipPath :> <<[id |-> -1, part |-> "zip"]>>) @@ files
                 /\ dirs' = dirs
  /\ UNCHANGED << env, exitCode, filename, size, listing, idx, chunks,
                  tmpDir, outPath >>

\* The sendTelegramMessage calls inside handleFolder's try block.
FolderMsgUrls(at) == IF at = "folder_link" THEN <<MemberId(idx)>> ELSE <<>>

FolderNextPc(at) ==
  CASE at = "folder_dlmsg"  -> "folder_download"
    [] at = "folder_zipbig" -> "folder_link"
    [] at = "folder_link"   -> IF idx < Len(listing) THEN "folder_link" ELSE "done"
    [] at = "folder_upmsg"  -> "folder_upload"
    [] OTHER                -> "done"

\* `try { fs.unlinkSync(zipPath) } catch {}` stands after the success message
\* only.
ZipUnlinkedAfter(at, res) == at = "folder_okmsg" /\ ~Throws(res)

FolderNotify ==
  /\ pc \in {"folder_dlmsg", "folder_zipbig", "folder_link", "folder_upmsg",
             "folder_okmsg"}
  /\ \E res \in SendResults :
       LET leave == Throws(res) \/ FolderNextPc(pc) = "done"
           unzip == IF ZipUnlinkedAfter(pc, res) THEN UnlinkQuiet(files, ZipPath)
                    ELSE files
       IN
       /\ log' = Append(log, Msg(pc, FolderMsgUrls(pc), res))
       /\ pc' = IF Throws(res) THEN "catch" ELSE FolderNextPc(pc)
       /\ err' = IF Throws(res) THEN "send" ELSE err
       /\ idx' = IF Throws(res) THEN idx
                 ELSE IF pc \in {"folder_dlmsg", "folder_zipbig"} THEN 1
                 ELSE IF pc = "folder_link" THEN idx + 1
                 ELSE idx
       /\ files' = IF leave THEN FolderFinallyFiles(unzip) ELSE files
       /\ dirs' = IF leave THEN FolderFinallyDirs(dirs) ELSE dirs
       /\ archive' = IF ZipPath \in DOMAIN files' THEN archive ELSE {}
  /\ UNCHANGED << env, exitCode, filename, size, listing, chunks, statSize,
                  tmpDir, outPath >>

\* ------------------------------------------------------ the specification
Next ==
  \/ MainStart
  \/ FileHead
  \/ FileNotify
  \/ FileDownload
  \/ UploadDocumentCurl
  \/ FolderFetch
  \/ NotifyPlain
  \/ FolderDownload
  \/ FolderZip
  \/ FolderNotify
  \/ MainCatch
  \/ MainDone

Spec == Init /\ [][Next]_vars

\* ------------------------------------------------------------- properties
Exited == pc = "exited"

HasEv(op, res) == \E k \in DOMAIN log : log[k].op = op /\ log[k].res = res
HasMsg(kind) == \E k \in DOMAIN log : log[k].op = "msg" /\ log[k].kind = kind
ListingWas(kind) == \E k \in DOMAIN log : log[k].op = "list" /\ log[k].kind = kind

\* A fatal condition of the run: a required value missing, a link matching
\* neither pattern, the listing request answered with a non-success status,
\* a listing without files, a failed download, archive step or upload.
FatalOccurred ==
  \/ ConfigMissing
  \/ (~env.fileMatch /\ ~env.folderMatch)
  \/ ListingWas("notok")
  \/ (ListingWas("ok") /\ listing = <<>>)
  \/ HasEv("get", "fail")
  \/ HasEv("zip", "fail")
  \/ HasEv("upload", "fail")

EndedInUpload == HasEv("upload", "ok")
EndedInFallback ==
  \E kind \in {"file_toolarge", "file_afterlarge", "folder_summary",
               "folder_chunk", "folder_zipbig", "folder_link"} : HasMsg(kind)

\* C1: when the process has exited, the exit code is 1 if a fatal condition
\* occurred, and it is 0 only if the run ended in a completed upload or in a
\* link fallback.
C1_ExitCode ==
  Exited => /\ (FatalOccurred => exitCode = 1)
            /\ (exitCode = 0 => EndedInUpload \/ EndedInFallback)

\* C2: when the process has exited after a run that created a staging
\* directory, nothing the run created exists any more: not the directory, not
\* a downloaded file, not the archive.  (Every file of the modelled file
\* system was written by the run.)
C2_StagingRemoved ==
  (Exited /\ tmpDir # <<>>) => (tmpDir \notin dirs /\ DOMAIN files = {})

\* C3: every upload is of an artifact whose last write (download or archive
\* step) succeeded and was followed by a stat that reported a size of at most
\* maxBytes, with nothing but notifications between that stat and the upload.
C3_UploadOnlyChecked ==
  \A k \in DOMAIN log :
    log[k].op = "upload" =>
      \E j \in 1..(k - 1) :
        /\ log[j].op \in {"get", "zip"}
        /\ log[j].path = log[k].path
        /\ log[j].res # "fail"
        /\ log[j].size # NoSize
        /\ log[j].size <= MaxBytes
        /\ \A m \in (j + 1)..(k - 1) : log[m].op = "msg"

\* An upload was invoked in a run with a configured budget that staged
\* artifacts can exceed.
C3_Witness ==
  /\ env.maxSet
  /\ \E k \in DOMAIN log : log[k].op = "upload" /\ log[k].kind = "folder_upload"

\* The notifications that carry direct URLs, in the order sent.
LinkMsgs == SelectSeq(log, LAMBDA e : e.op = "msg" /\ e.urls # <<>>)
MsgsOf(kind) == SelectSeq(log, LAMBDA e : e.op = "msg" /\ e.kind = kind)
NoEv(ops) == \A k \in DOMAIN log : log[k].op \notin ops

RECURSIVE ConcatUrls(_)
ConcatUrls(ms) == IF ms = <<>> THEN <<>> ELSE Head(ms).urls \o ConcatUrls(Tail(ms))

AllIds(n) == [k \in 1..n |-> MemberId(k)]
IsPrefixOf(a, b) == Len(a) <= Len(b) /\ SubSeq(b, 1, Len(a)) = a

\* The probe of a single-file run reported a size above the budget.
ProbedTooLarge ==
  /\ \E k \in DOMAIN log : log[k].op = "head"
  /\ size # NoSize
  /\ size > MaxBytes

UnknownThenTooLarge ==
  /\ size = NoSize
  /\ \E k \in DOMAIN log :
       /\ log[k].op = "get" /\ log[k].kind = "file" /\ log[k].res # "fail"
       /\ log[k].size > MaxBytes

\* C5: in a single-file run with an unknown probed size whose download is
\* larger than maxBytes there is never an upload, and once the post-download
\* fallback send has been made (so in particular at process exit) a
\* notification with the direct URL has been sent and the downloaded file and
\* its directory are gone.
C5_OversizeDownloadDiscarded ==
  UnknownThenTooLarge =>
    /\ NoEv({"upload"})
    /\ pc # "file_afterlarge" =>
         /\ \E k \in DOMAIN log :
              /\ log[k].op = "msg" /\ log[k].kind = "file_afterlarge"
              /\ log[k].urls = <<FileId>>
         /\ outPath \notin DOMAIN files
         /\ DOMAIN files = {}
         /\ tmpDir \notin dirs

\* The oversize download of a file of unknown size was discarded and the
\* process has exited normally.
C5_Witness ==
  /\ Exited
  /\ exitCode = 0
  /\ UnknownThenTooLarge
  /\ HasMsg("file_afterlarge")

\* handleFolder got a listing with at least one file.
Listed == ListingWas("ok") /\ listing # <<>>

\* handleFolder has returned normally.
Returned == pc = "done" \/ (Exited /\ exitCode = 0)

\* The listed sizes of the first k members, one without a size counted as 0.
RECURSIVE ListedTotal(_, _)
ListedTotal(fl, k) ==
  IF k = 0 THEN 0
  ELSE (IF fl[k].size = NoSize THEN 0 ELSE fl[k].size) + ListedTotal(fl, k - 1)

ListedOver == Listed /\ ListedTotal(listing, Len(listing)) > MaxBytes
ListedWithin == Listed /\ ListedTotal(listing, Len(listing)) <= MaxBytes

\* C6: in a folder run within the listed budget, when archiving starts the
\* staging directory holds one file per listed member, each with exactly that
\* member's bytes; the archive produced holds exactly those entries; and when
\* the run has ended without a notification failure the archive has been
\* uploaded if and only if its real size is at most maxBytes.
C6_OneFilePerMember ==
  ListedWithin =>
    /\ pc = "folder_zip" =>
         /\ Cardinality(Staged(files, tmpDir)) = Len(listing)
         /\ \A k \in 1..Len(listing) :
              /\ MemberPath(tmpDir, listing[k]) \in DOMAIN files
              /\ files[MemberPath(tmpDir, listing[k])]
                   = <<[id |-> MemberId(k), part |-> "whole"]>>
    /\ pc \in {"folder_zipbig", "folder_upmsg"} =>
         /\ Cardinality(archive) = Len(listing)
         /\ \A k \in 1..Len(listing) :
              \E e \in archive : e.content = <<[id |-> MemberId(k), part |-> "whole"]>>
    /\ (Exited /\ HasEv("zip", "ok") /\ ~HasEv("msg", "throw")) =>
         (HasEv("upload", "ok") <=> statSize <= MaxBytes)

\* The archive step produced an archive larger than maxBytes.
ArchiveTooLarge ==
  \E k \in DOMAIN log :
    log[k].op = "zip" /\ log[k].res = "ok" /\ log[k].size > MaxBytes

\* C7: in a folder run whose archive is larger than maxBytes there is no
\* upload, the per-member link notifications follow the listing order (one
\* per member once handleFolder has returned), and when the process exits
\* after that fallback the archive file no longer exists.
C7_OversizeArchiveDiscarded ==
  ArchiveTooLarge =>
    /\ NoEv({"upload"})
    /\ IsPrefixOf(ConcatUrls(MsgsOf("folder_link")), AllIds(Len(listing)))
    /\ \A k \in DOMAIN MsgsOf("folder_link") : Len(MsgsOf("folder_link")[k].urls) = 1
    /\ Returned => Len(MsgsOf("folder_link")) = Len(listing)
    /\ (Exited /\ exitCode = 0) => ZipPath \notin DOMAIN files

\* C8: a folder run over the listed budget creates no staging directory and
\* downloads, archives and uploads nothing; its chunk messages name the
\* members' direct URLs in listing order, and all of them once handleFolder
\* has returned.  A folder run within the listed budget takes the archive
\* path: the staging directory is created and no link list is sent before
\* the archive exists.
C8_FolderGate ==
  /\ ListedOver =>
       /\ tmpDir = <<>>
       /\ MkdtempPath \notin dirs
       /\ DOMAIN files = {}
       /\ NoEv({"get", "zip", "upload"})
       /\ IsPrefixOf(ConcatUrls(MsgsOf("folder_chunk")), AllIds(Len(listing)))
       /\ Returned => ConcatUrls(MsgsOf("folder_chunk")) = AllIds(Len(listing))
  /\ ListedWithin =>
       /\ tmpDir = MkdtempPath
       /\ ~HasMsg("folder_summary")
       /\ ~HasMsg("folder_chunk")
       /\ pc \in {"folder_dlmsg", "folder_download", "folder_zip", "folder_zipbig",
                  "folder_link", "folder_upmsg", "folder_upload", "folder_okmsg",
                  "catch", "done", "exited"}
       /\ (pc \in {"folder_dlmsg", "folder_download", "folder_zip"} =>
            MkdtempPath \in dirs)

\* A folder over the listed budget has been answered with link messages that
\* name every member, and the process has exited.
C8_Witness ==
  /\ Exited
  /\ exitCode = 0
  /\ ListedOver
  /\ Len(listing) = MaxFiles
  /\ ConcatUrls(MsgsOf("folder_chunk")) = AllIds(Len(listing))

\* C9: when the link matches neither pattern the run reaches the top-level
\* catch with the unrecognized-link error, and no network call has been made
\* by then.
C9_NoNetworkBeforeClassification ==
  (~ConfigMissing /\ ~env.fileMatch /\ ~env.folderMatch /\ pc = "catch") =>
    (err = "nolink" /\ log = <<>>)

\* C10: every chunk message of the folder link list is at most the message
\* limit long (separators included) and not empty, and the chunk messages
\* hold the lines in listing order, each line in one message.
C10_ChunksWithinLimit ==
  /\ \A k \in DOMAIN MsgsOf("folder_chunk") :
       /\ MsgsOf("folder_chunk")[k].size <= ChunkLimit
       /\ MsgsOf("folder_chunk")[k].urls # <<>>
  /\ IsPrefixOf(ConcatUrls(MsgsOf("folder_chunk")), AllIds(Len(listing)))

\* The run reached the top-level catch through a fatal condition of the
\* pipeline itself (not a missing value, a bad name or a failed send).
PipelineFatal == err \in {"nolink", "fetch", "download", "zip", "upload"}

LastEv == log[Len(log)]

\* C11: a run that has ended in a fatal condition has issued exactly one
\* message for it: the error message of the top-level catch (the last thing
\* the run does) for an unrecognized link, a throwing listing request, a
\* failed download, archive step or upload; the folder-failure message for a
\* non-success listing answer; the empty-folder message for a listing
\* without files.  A run without the bot token or the chat id sends nothing.
C11_OneMessagePerFatal ==
  Exited =>
    /\ PipelineFatal =>
         /\ Len(MsgsOf("error")) = 1
         /\ LastEv.op = "msg" /\ LastEv.kind = "error"
    /\ ListingWas("notok") => Len(MsgsOf("folder_failmsg")) = 1
    /\ (ListingWas("ok") /\ listing = <<>>) => Len(MsgsOf("folder_emptymsg")) = 1
    /\ (~env.token \/ ~env.chat) => log = <<>>

\* A run has ended after a failed download and its one error message.
C11_Witness ==
  /\ Exited
  /\ err = "download"
  /\ Len(MsgsOf("error")) = 1

\* A single-file run whose probe reported a size within the budget, whose
\* download succeeded with a file within the budget, and in which every
\* notification was accepted.
DirectRunAllWell ==
  /\ \E k \in DOMAIN log : log[k].op = "head"
  /\ size # NoSize
  /\ size <= MaxBytes
  /\ \E k \in DOMAIN log :
       /\ log[k].op = "get" /\ log[k].res = "ok"
       /\ log[k].size <= MaxBytes
  /\ \A k \in DOMAIN log : log[k].op = "msg" => log[k].res = "ok"

\* C12: a single-file run with a known size within the budget, a successful
\* download and accepted notifications ends with exit code 0 after the
\* download, then a successful upload, then the success message as the last
\* message; and the success message is only ever sent after a successful
\* upload.
C12_DirectRunOrder ==
  /\ (Exited /\ DirectRunAllWell) =>
       /\ exitCode = 0
       /\ \E g, u \in DOMAIN log :
            /\ g < u /\ u < Len(log)
            /\ log[g].op = "get"
            /\ log[u].op = "upload" /\ log[u].res = "ok"
       /\ LastEv.op = "msg" /\ LastEv.kind = "file_okmsg"
  /\ HasMsg("file_okmsg") => HasEv("upload", "ok")

\* The identifiers named in a sequence of URLs.
UrlSet(urls) == {urls[k] : k \in DOMAIN urls}

\* C13: when the process has exited after a failed download, a message sent
\* after the failure carries that item's direct URL; when it has exited
\* after a failed archive step, the messages sent carry the direct URL of
\* every member of the listing.
C13_FallbackLinksOnFailure ==
  Exited =>
    /\ \A k \in DOMAIN log :
         (log[k].op = "get" /\ log[k].res = "fail") =>
           \E j \in (k + 1)..Len(log) :
             log[j].op = "msg" /\ UrlSet(log[k].urls) \subseteq UrlSet(log[j].urls)
    /\ HasEv("zip", "fail") =>
         \A m \in 1..Len(listing) :
           \E j \in DOMAIN log : log[j].op = "msg" /\ MemberId(m) \in UrlSet(log[j].urls)

\* C14: a run that reached the top-level catch with both credentials set
\* has, when it has exited, made exactly one error notification, as the last
\* thing it did, and whatever the outcome of that request (accepted,
\* rejected, thrown) the exit code is 1; the error notification is never
\* made anywhere else than on the way out.
C14_FinalErrorNotification ==
  /\ (Exited /\ err # "none") =>
       /\ exitCode = 1
       /\ (env.token /\ env.chat) =>
            /\ Len(MsgsOf("error")) = 1
            /\ LastEv.op = "msg" /\ LastEv.kind = "error"
  /\ ~Exited => MsgsOf("error") = <<>>

\* A run has exited after an error notification whose request threw.
C14_Witness ==
  /\ Exited
  /\ err # "none"
  /\ log # <<>>
  /\ LastEv.op = "msg" /\ LastEv.kind = "error" /\ LastEv.res = "throw"

\* The probe of a single-file run threw, was answered with a non-success
\* status, or was answered without a content-length header.
ProbeWithoutSize ==
  \E k \in DOMAIN log : log[k].op = "head" /\ log[k].size = NoSize

\* C15: after a probe without a size the single-file run is not aborted: the
\* size is unknown, the staging directory has been created and the run goes
\* on to the download (with the synthesized name when the probe threw or was
\* not answered with success), and it reaches the upload only with a
\* downloaded file of at most maxBytes.
C15_ProbeFailureContinues ==
  ProbeWithoutSize =>
    /\ size = NoSize
    /\ err # "uri"
    /\ tmpDir = MkdtempPath
    /\ LastEv.op = "head" => pc = "file_dlmsg"
    /\ (\E k \in DOMAIN log : log[k].op = "head" /\ log[k].kind \in {"threw", "notok"})
         => filename = DefaultFileName
    /\ pc \in {"file_upmsg", "file_upload"} => statSize <= MaxBytes
    /\ UnknownThenTooLarge => NoEv({"upload"})

\* C16: while a run is in progress every file it has written is inside its
\* own staging directory, and the archive holds only whole members of its
\* own listing.
C16_WritesInsideStaging ==
  /\ \A p \in DOMAIN files :
       /\ tmpDir # <<>>
       /\ IsPrefix(tmpDir, p)
       /\ p # tmpDir
  /\ \A e \in archive :
       \E k \in 1..Len(listing) :
         e.content = <<[id |-> MemberId(k), part |-> "whole"]>>

\* C17: the destination of every download is a direct child of the staging
\* directory of the run.
C17_DestinationIsChild ==
  \A k \in DOMAIN log :
    log[k].op = "get" =>
      /\ Len(log[k].path) = Len(tmpDir) + 1
      /\ IsPrefix(tmpDir, log[k].path)

\* The downloads of a folder run, in the order made.
GetMembers == SelectSeq(log, LAMBDA e : e.op = "get" /\ e.kind = "member")

\* C18: in a folder run the members are downloaded one after the other in
\* listing order, each once, a download starting only after the one before
\* it succeeded; the one archive step comes after the download of every
\* member; and the upload comes after the archive step succeeded and the
\* archive was found to be at most maxBytes.
C18_StagesInSequence ==
  /\ IsPrefixOf(ConcatUrls(GetMembers), AllIds(Len(listing)))
  /\ \A k \in DOMAIN GetMembers :
       /\ Len(GetMembers[k].urls) = 1
       /\ k < Len(GetMembers) => GetMembers[k].res # "fail"
  /\ pc = "folder_download" => idx = Len(GetMembers) + 1
  /\ \A z \in DOMAIN log :
       log[z].op = "zip" =>
         /\ Len(GetMembers) = Len(listing)
         /\ \A g \in DOMAIN log :
              log[g].op = "get" => (g < z /\ log[g].res # "fail")
         /\ \A y \in DOMAIN log : log[y].op = "zip" => y = z
  /\ \A u \in DOMAIN log :
       (log[u].op = "upload" /\ log[u].kind = "folder_upload") =>
         /\ \E z \in 1..(u - 1) :
              log[z].op = "zip" /\ log[z].res = "ok" /\ log[z].size <= MaxBytes
         /\ \A y \in DOMAIN log : log[y].op = "upload" => y = u
  /\ pc = "folder_zip" => Len(GetMembers) = Len(listing)
  /\ pc = "folder_upload" => (HasEv("zip", "ok") /\ statSize <= MaxBytes)

\* A folder run over a full listing has gone through every stage.
C18_Witness ==
  /\ Exited
  /\ Len(listing) = MaxFiles
  /\ Len(GetMembers) = MaxFiles
  /\ HasEv("zip", "ok")
  /\ \E u \in DOMAIN log : log[u].op = "upload" /\ log[u].kind = "folder_upload"

\* The step issues a notification whose request has the outcome res.
Sent(res) ==
  /\ Len(log') = Len(log) + 1
  /\ log'[Len(log')].op = "msg"
  /\ log'[Len(log')].res = res

\* Everything a step leaves behind, except the log.
AfterStep ==
  << env', pc', err', exitCode', filename', size', listing', idx', chunks',
     statSize', tmpDir', outPath', files', dirs', archive' >>

\* C19: a step whose notification is answered with ok=false can also be taken
\* with the notification accepted, and then leaves the run in the same
\* position with the same error, exit code, staging directory and files;
\* a notification that does not throw never raises the send error; a
\* notification inside the pipeline that throws takes the run to the
\* top-level catch with the staging directory removed; and a run that went
\* through the catch exits with code 1.
C19_RejectedChangesNothing ==
  [][ /\ Sent("rejected") =>
           \E after \in {AfterStep}, m \in {log'[Len(log')]} :
             ENABLED ( /\ Next
                       /\ log' = Append(log, [m EXCEPT !.res = "ok"])
                       /\ AfterStep = after )
      /\ (Sent("ok") \/ Sent("rejected")) =>
           /\ err' = err \/ (pc = "start" /\ err' = "nolink")
           /\ (pc' = "catch" => (pc = "start" /\ err' = "nolink"))
      /\ (Sent("throw") /\ pc # "catch") =>
           /\ pc' = "catch"
           /\ err' = "send"
           /\ tmpDir' \notin dirs'
           /\ \A p \in DOMAIN files' : ~IsPrefix(tmpDir', p) \/ tmpDir' = <<>>
      /\ (pc' = "exited" /\ err' # "none") => exitCode' = 1
    ]_vars

\* A run went on to the download after a rejected notification, was then
\* stopped by a notification that threw, and has exited with code 1 with
\* its staging directory removed.
C19_Witness ==
  /\ Exited
  /\ exitCode = 1
  /\ err = "send"
  /\ tmpDir # <<>>
  /\ tmpDir \notin dirs
  /\ \E r, g, t \in DOMAIN log :
       /\ r < g /\ g < t
       /\ log[r].op = "msg" /\ log[r].res = "rejected" /\ log[r].kind # "start"
       /\ log[g].op = "get" /\ log[g].res = "ok"
       /\ log[t].op = "msg" /\ log[t].res = "throw" /\ log[t].kind # "error"

====
